---- MODULE Spec2Model ----
(***************************************************************************)
(* A model of the Person resource server of src/main.go: the five HTTP     *)
(* handlers, the enrichment of a record from three lookup services, and    *)
(* the gorm store behind them (a table of rows with soft deletion and a    *)
(* serial primary key).  Each request is served by its own goroutine; the  *)
(* steps of a handler that touch the store are separate actions, so that   *)
(* requests interleave between a handler's db.First and its write.         *)
(***************************************************************************)
EXTENDS Integers, Sequences, FiniteSets, TLC

(***************************************************************************)
(* Bounds of the model.                                                    *)
(***************************************************************************)
\* Requests served in one behaviour (each by its own goroutine).
MaxReqs == 2
\* Largest primary key: the serial sequence stops here.
MaxId == 2

Reqs == 1..MaxReqs
Ids == 0..MaxId

(***************************************************************************)
(* HTTP status codes used by the handlers.                                 *)
(***************************************************************************)
StatusOK == 200
StatusCreated == 201
StatusBadRequest == 400
StatusNotFound == 404

(***************************************************************************)
(* JSON values as encoding/json decodes them into interface{}: a tagged    *)
(* record.  Numbers are float64; they are kept in tenths, so that 425 is   *)
(* 42.5 and the conversion int(age) has something to truncate.             *)
(***************************************************************************)
Nil == [t |-> "null"]
Num(n) == [t |-> "num", n |-> n]
Str(s) == [t |-> "str", s |-> s]
Arr(a) == [t |-> "arr", a |-> a]
Obj(o) == [t |-> "obj", o |-> o]

\* A nil map[string]interface{}: what `response` is when nothing was decoded.
NilMap == [k \in {} |-> Nil]

\* m[k] on a Go map: the zero value (nil interface) when the key is absent.
MapIndex(m, k) == IF k \in DOMAIN m THEN m[k] ELSE Nil

\* v.(float64), v.(string): the comma-ok forms yield the zero value on mismatch.
AssertFloat64(v) == IF v.t = "num" THEN v.n ELSE 0
AssertString(v) == IF v.t = "str" THEN v.s ELSE ""

\* int(f) for a non-negative float64 held in tenths: truncation.
IntOfFloat(tenths) == tenths \div 10

(***************************************************************************)
(* A lookup: the outcome of one resty GET with SetResult(&response).       *)
(* err is resty's error: the service is unreachable, or its 2xx JSON body  *)
(* does not unmarshal into the map.  Otherwise response is the decoded     *)
(* map, or still nil when resty decoded nothing (a status outside 2xx, a   *)
(* Content-Type that is not JSON).                                         *)
(***************************************************************************)
Failed == [err |-> TRUE, response |-> NilMap]
Answer(m) == [err |-> FALSE, response |-> m]

AgeLookups ==
    { Failed,
      Answer([age |-> Num(425)]) }

GenderLookups ==
    { Failed,
      Answer([gender |-> Str("male")]) }

NationalityLookups ==
    { Failed,
      Answer(NilMap),
      Answer([name |-> Str("x")]),
      Answer([country |-> Str("US")]),
      Answer([country |-> Arr(<<>>)]),
      Answer([country |-> Arr(<<Str("US")>>)]),
      Answer([country |-> Arr(<<Obj([probability |-> Num(1)])>>)]),
      Answer([country |-> Arr(<<Obj([country_id |-> Str("US")])>>)]) }

\* The name a lookup is issued for is part of its URL only; the answers are the
\* services' and may differ from one call to the next.
Lookups == [age : AgeLookups, gender : GenderLookups, nationality : NationalityLookups]

\* getAgifyAge: 0 on error, else int(response["age"].(float64)).
getAgifyAge(l) ==
    IF l.err THEN 0
    ELSE IntOfFloat(AssertFloat64(MapIndex(l.response, "age")))

\* getGenderizeGender: "" on error, else response["gender"].(string).
getGenderizeGender(l) ==
    IF l.err THEN ""
    ELSE AssertString(MapIndex(l.response, "gender"))

\* getNationality: "" on error; else
\*   response["country"].([]interface{})[0].(map[string]interface{})["country_id"].(string)
\* where only the last assertion is of the comma-ok form: the others panic.
getNationality(l) ==
    IF l.err THEN [panic |-> FALSE, value |-> ""]
    ELSE LET country == MapIndex(l.response, "country")
         IN  IF country.t # "arr" THEN [panic |-> TRUE, value |-> ""]
             ELSE IF Len(country.a) = 0 THEN [panic |-> TRUE, value |-> ""]
             ELSE IF country.a[1].t # "obj" THEN [panic |-> TRUE, value |-> ""]
             ELSE [panic |-> FALSE,
                   value |-> AssertString(MapIndex(country.a[1].o, "country_id"))]

\* A getEnrichedData that gives up at the first lookup that fails.
getEnrichedDataStopsAtFailure(l) ==
    IF l.age.err
    THEN [panic |-> FALSE, calls |-> 1, age |-> 0, gender |-> "", nationality |-> ""]
    ELSE IF l.gender.err
    THEN [panic |-> FALSE, calls |-> 2, age |-> getAgifyAge(l.age), gender |-> "",
          nationality |-> ""]
    ELSE [panic |-> getNationality(l.nationality).panic, calls |-> 3,
          age |-> getAgifyAge(l.age), gender |-> getGenderizeGender(l.gender),
          nationality |-> getNationality(l.nationality).value]

\* getEnrichedData: the three lookups in sequence.  calls counts the GETs issued.
getEnrichedData(l) ==
    LET age == getAgifyAge(l.age)
        gender == getGenderizeGender(l.gender)
        nationality == getNationality(l.nationality)
    IN  [panic |-> nationality.panic, calls |-> 3,
         age |-> age, gender |-> gender, nationality |-> nationality.value]

(***************************************************************************)
(* Person: gorm.Model (ID, and DeletedAt as set or not; CreatedAt and      *)
(* UpdatedAt are not modelled) and the six fields of the struct.           *)
(***************************************************************************)
Names == {"John", "Ann"}

\* var person Person
ZeroPerson ==
    [ID |-> 0, Name |-> "", Surname |-> "", Patronymic |-> "",
     Age |-> 0, Gender |-> "", Nationality |-> "", DeletedAt |-> FALSE]

\* An enrichPersonData that forgets to assign the age.
enrichPersonDataKeepsAge(person, e) ==
    [person EXCEPT !.Gender = e.gender, !.Nationality = e.nationality]

\* enrichPersonData: the three derived fields are overwritten by the lookups' results.
enrichPersonData(person, e) ==
    [person EXCEPT !.Age = e.age, !.Gender = e.gender, !.Nationality = e.nationality]

(***************************************************************************)
(* Request bodies, as JSON values.  A client may send any key of the       *)
(* struct, the derived fields and the primary key included.                *)
(***************************************************************************)
\* Not JSON at all.
Garbage == [t |-> "garbage"]

UserFields == { [Surname |-> "Doe", Patronymic |-> ""],
                [Surname |-> "Roe", Patronymic |-> "Ivanovich"] }

Plain(name, u) ==
    [Name |-> Str(name), Surname |-> Str(u.Surname), Patronymic |-> Str(u.Patronymic)]

\* Derived values no lookup service returns, and the surname of the client
\* that sends them.
Forged == [Age |-> 7, Gender |-> "forged", Nationality |-> "ZZ"]
Forger == [Surname |-> "Mallory", Patronymic |-> ""]

WithDerived(name, u) ==
    [Name |-> Str(name), Surname |-> Str(u.Surname), Patronymic |-> Str(u.Patronymic),
     Age |-> Num(10 * Forged.Age), Gender |-> Str(Forged.Gender),
     Nationality |-> Str(Forged.Nationality)]

WithID(name, u, id) ==
    [Name |-> Str(name), Surname |-> Str(u.Surname), Patronymic |-> Str(u.Patronymic),
     ID |-> Num(10 * id)]

WithDeletedAt(name, u) ==
    [Name |-> Str(name), Surname |-> Str(u.Surname), Patronymic |-> Str(u.Patronymic),
     DeletedAt |-> Str("2020-01-01T00:00:00Z")]

Bodies ==
    { Garbage, Obj([Name |-> Num(50)]) }
      \cup { Obj(Plain(n, u)) : n \in Names, u \in UserFields }
      \cup { Obj(WithDerived("John", Forger)) }
      \cup { Obj(WithDeletedAt("Ann", [Surname |-> "Doe", Patronymic |-> ""])) }
      \cup { Obj(WithID("Ann", [Surname |-> "Roe", Patronymic |-> "Ivanovich"], id)) : id \in 1..MaxId }

\* A string field of the struct: absent or null leaves the zero value, another
\* JSON type is an UnmarshalTypeError.
StringField(o, k) ==
    LET v == MapIndex(o, k)
    IN  IF v.t = "null" THEN [err |-> FALSE, value |-> ""]
        ELSE IF v.t = "str" THEN [err |-> FALSE, value |-> v.s]
        ELSE [err |-> TRUE, value |-> ""]

\* An integer field: a number with a fractional part does not fit.
IntField(o, k) ==
    LET v == MapIndex(o, k)
    IN  IF v.t = "null" THEN [err |-> FALSE, value |-> 0]
        ELSE IF v.t = "num" /\ v.n % 10 = 0 THEN [err |-> FALSE, value |-> v.n \div 10]
        ELSE [err |-> TRUE, value |-> 0]

\* A *time.Time field: absent or null leaves nil, a string sets it.
TimeField(o, k) ==
    LET v == MapIndex(o, k)
    IN  IF v.t = "null" THEN [err |-> FALSE, value |-> FALSE]
        ELSE IF v.t = "str" THEN [err |-> FALSE, value |-> TRUE]
        ELSE [err |-> TRUE, value |-> FALSE]

\* json.NewDecoder(r.Body).Decode(&person)
Decode(body) ==
    IF body.t # "obj" THEN [err |-> TRUE, person |-> ZeroPerson]
    ELSE LET id == IntField(body.o, "ID")
             name == StringField(body.o, "Name")
             surname == StringField(body.o, "Surname")
             patronymic == StringField(body.o, "Patronymic")
             age == IntField(body.o, "Age")
             gender == StringField(body.o, "Gender")
             nationality == StringField(body.o, "Nationality")
             deletedAt == TimeField(body.o, "DeletedAt")
         IN  IF id.err \/ name.err \/ surname.err \/ patronymic.err
                \/ age.err \/ gender.err \/ nationality.err \/ deletedAt.err
             THEN [err |-> TRUE, person |-> ZeroPerson]
             ELSE [err |-> FALSE,
                   person |-> [ID |-> id.value, Name |-> name.value,
                               Surname |-> surname.value, Patronymic |-> patronymic.value,
                               Age |-> age.value, Gender |-> gender.value,
                               Nationality |-> nationality.value,
                               DeletedAt |-> deletedAt.value]]

(***************************************************************************)
(* The {id} path parameter, a string of characters, and strconv.Atoi.      *)
(***************************************************************************)
Digits == <<"0", "1", "2", "3", "4", "5", "6", "7", "8", "9">>

DigitValue(c) == CHOOSE d \in 0..9 : Digits[d + 1] = c

IsDigit(c) == \E d \in 0..9 : Digits[d + 1] = c

RECURSIVE AtoiValue(_)
AtoiValue(s) ==
    IF Len(s) = 0 THEN 0
    ELSE 10 * AtoiValue(SubSeq(s, 1, Len(s) - 1)) + DigitValue(s[Len(s)])

Atoi(s) ==
    IF Len(s) > 0 /\ \A i \in 1..Len(s) : IsDigit(s[i])
    THEN [err |-> FALSE, value |-> AtoiValue(s)]
    ELSE [err |-> TRUE, value |-> 0]

IdParams == { <<Digits[i + 1]>> : i \in Ids } \cup { <<"1", "0">>, <<"a", "b", "c">> }

(***************************************************************************)
(* The store: table people, keyed by the primary key.  A row is a Person;  *)
(* NoRow marks a key that was never inserted.  gorm.Model makes deletion   *)
(* soft: db.Delete sets deleted_at and every query adds                    *)
(* "deleted_at IS NULL".                                                   *)
(***************************************************************************)
NoRow == [ID |-> 0]

Keys == 1..MaxId

EmptyTable == [k \in Keys |-> NoRow]

HasRow(table, id) == id \in Keys /\ table[id] # NoRow

Visible(table, id) == HasRow(table, id) /\ ~table[id].DeletedAt

\* Errors of a store call.
ErrNone == "none"
ErrRecordNotFound == "record not found"
ErrClosed == "sql: database is closed"
ErrConn == "connection refused"
ErrDuplicateKey == "duplicate key"

\* A db.First that does not filter on deleted_at (Unscoped).
dbFirstUnscoped(table, fault, id) ==
    IF fault # ErrNone THEN [err |-> fault, person |-> ZeroPerson]
    ELSE IF HasRow(table, id) THEN [err |-> ErrNone, person |-> table[id]]
    ELSE [err |-> ErrRecordNotFound, person |-> ZeroPerson]

\* db.First(&person, personID)
dbFirst(table, fault, id) ==
    IF fault # ErrNone THEN [err |-> fault, person |-> ZeroPerson]
    ELSE IF Visible(table, id) THEN [err |-> ErrNone, person |-> table[id]]
    ELSE [err |-> ErrRecordNotFound, person |-> ZeroPerson]

\* db.Find(&people)
dbFind(table, fault) ==
    IF fault # ErrNone THEN {}
    ELSE { table[k] : k \in { i \in Keys : Visible(table, i) } }

\* INSERT of person under key id: the primary key is unique over all rows,
\* soft-deleted ones included.
Insert(table, sequence, person, id) ==
    IF HasRow(table, id)
    THEN [err |-> ErrDuplicateKey, table |-> table, seq |-> sequence, person |-> person]
    ELSE [err |-> ErrNone, seq |-> sequence, person |-> [person EXCEPT !.ID = id],
          table |-> [table EXCEPT ![id] = [person EXCEPT !.ID = id]]]

\* db.Create(&person): a blank primary key is drawn from the serial sequence
\* (which advances even when the INSERT fails); a set one is inserted as given.
dbCreate(table, sequence, fault, person) ==
    IF fault # ErrNone
    THEN [err |-> fault, table |-> table, seq |-> sequence, person |-> person]
    ELSE IF person.ID = 0
    THEN Insert(table, sequence + 1, person, sequence + 1)
    ELSE Insert(table, sequence, person, person.ID)

\* A db.Save whose UPDATE does not filter on deleted_at (Unscoped).
dbSaveUnscoped(table, sequence, fault, person) ==
    IF fault # ErrNone
    THEN [err |-> fault, table |-> table, seq |-> sequence, person |-> person]
    ELSE [err |-> ErrNone, seq |-> sequence, person |-> person,
          table |-> [table EXCEPT ![person.ID] = person]]

\* db.Save(&person) with a set primary key: UPDATE ... WHERE id = ? AND
\* deleted_at IS NULL; when no row was affected, FirstOrCreate: SELECT, then INSERT.
dbSave(table, sequence, fault, person) ==
    IF fault # ErrNone
    THEN [err |-> fault, table |-> table, seq |-> sequence, person |-> person]
    ELSE IF Visible(table, person.ID)
    THEN [err |-> ErrNone, seq |-> sequence, person |-> person,
          table |-> [table EXCEPT ![person.ID] = person]]
    ELSE Insert(table, sequence, person, person.ID)

\* db.Delete(&person): UPDATE ... SET deleted_at = now WHERE id = ? AND deleted_at IS NULL
dbDelete(table, fault, person) ==
    IF fault # ErrNone THEN [err |-> fault, table |-> table]
    ELSE IF Visible(table, person.ID)
    THEN [err |-> ErrNone, table |-> [table EXCEPT ![person.ID].DeletedAt = TRUE]]
    ELSE [err |-> ErrNone, table |-> table]

(***************************************************************************)
(* State.                                                                  *)
(***************************************************************************)
VARIABLES
    started,    \* main has returned from initDB and serves requests
    dbClosed,   \* the *gorm.DB handle `db` has been closed
    people,     \* the table
    seq,        \* last value of the serial sequence of people.id
    origin,     \* per key: the enrichment call behind the stored derived fields
    req         \* per request: where its handler stands, its locals, its response

vars == <<started, dbClosed, people, seq, origin, req>>

NoEnrichment == [name |-> "", age |-> 0, gender |-> "", nationality |-> "", calls |-> 0]

NoUserFields == [Name |-> "", Surname |-> "", Patronymic |-> ""]

UserFieldsOf(person) ==
    [Name |-> person.Name, Surname |-> person.Surname, Patronymic |-> person.Patronymic]

NoLookups == [age |-> Failed, gender |-> Failed, nationality |-> Failed]

\* A request that has not arrived.
Idle ==
    [op |-> "none", pc |-> "idle",
     idErr |-> FALSE, personID |-> 0,       \* strconv.Atoi(params["id"])
     bodyErr |-> FALSE,                     \* the body does not decode
     sent |-> NoUserFields,                 \* the user fields of the decoded body
     person |-> ZeroPerson,                 \* person / existingPerson
     old |-> ZeroPerson,                    \* the row db.First read
     lookups |-> NoLookups,                 \* what the three services answered
     enriched |-> NoEnrichment,             \* getEnrichedData's argument and results
     firstErr |-> ErrNone,                  \* db.First's error
     writeErr |-> ErrNone,                  \* db.Create's, db.Save's, db.Delete's error
     status |-> 0, out |-> ZeroPerson, list |-> {}]

\* The faults a store call can meet: a closed handle fails every call, an open
\* one may lose its connection.
Faults == IF dbClosed THEN {ErrClosed} ELSE {ErrNone, ErrConn}

\* respondJSON(w, status, person) / respondError(w, code, message): the handler returns.
respondJSON(q, status, person) ==
    [q EXCEPT !.pc = "done", !.status = status, !.out = person]

respondError(q, code) ==
    [q EXCEPT !.pc = "done", !.status = code]

\* The record that createPerson leaves in an empty table for John Doe.
SeedLookups ==
    [age |-> Answer([age |-> Num(300)]),
     gender |-> Answer([gender |-> Str("male")]),
     nationality |-> Answer([country |-> Arr(<<Obj([country_id |-> Str("US")])>>)])]

SeedPerson ==
    enrichPersonData(Decode(Obj(Plain("John", [Surname |-> "Doe", Patronymic |-> ""]))).person,
                     getEnrichedData(SeedLookups))

Seeded == dbCreate(EmptyTable, 0, ErrNone, SeedPerson)

OriginOf(name, e) ==
    [name |-> name, age |-> e.age, gender |-> e.gender,
     nationality |-> e.nationality, calls |-> e.calls]

\* The handlers serve with an open handle, on an empty table or on one that an
\* earlier createPerson has filled.
Init ==
    /\ started = TRUE
    /\ dbClosed = FALSE
    /\ \E t \in {[table |-> EmptyTable, seq |-> 0], [table |-> Seeded.table, seq |-> Seeded.seq]} :
          /\ people = t.table
          /\ seq = t.seq
    /\ origin = [k \in Keys |->
                    IF HasRow(people, k) THEN OriginOf("John", getEnrichedData(SeedLookups))
                    ELSE NoEnrichment]
    /\ req = [r \in Reqs |-> Idle]

\* The process as main starts it: nothing served before initDB has returned.
InitMain ==
    /\ started = FALSE
    /\ dbClosed = FALSE
    /\ people = EmptyTable
    /\ seq = 0
    /\ origin = [k \in Keys |-> NoEnrichment]
    /\ req = [r \in Reqs |-> Idle]

(***************************************************************************)
(* initDB: gorm.Open, AutoMigrate, and the deferred db.Close() that runs   *)
(* when initDB returns.  main serves only after it.                        *)
(***************************************************************************)
initDB ==
    /\ ~started
    /\ started' = TRUE
    /\ dbClosed' = TRUE
    /\ UNCHANGED <<people, seq, origin, req>>

Arrive(r, op) ==
    [req[r] EXCEPT !.op = op]

(***************************************************************************)
(* getPeople                                                               *)
(***************************************************************************)
getPeople(r) ==
    /\ started /\ req[r].pc = "idle"
    /\ \E fault \in Faults :
          req' = [req EXCEPT ![r] =
                    [Arrive(r, "list") EXCEPT !.pc = "done", !.status = StatusOK,
                                              !.list = dbFind(people, fault)]]
    /\ UNCHANGED <<started, dbClosed, people, seq, origin>>

(***************************************************************************)
(* getPerson                                                               *)
(***************************************************************************)
getPerson(r) ==
    /\ started /\ req[r].pc = "idle"
    /\ \E param \in IdParams, fault \in Faults :
          LET id == Atoi(param)
              q == [Arrive(r, "get") EXCEPT !.idErr = id.err, !.personID = id.value]
              f == dbFirst(people, fault, id.value)
          IN  req' = [req EXCEPT ![r] =
                        IF id.err THEN respondError(q, StatusBadRequest)
                        ELSE IF f.err # ErrNone
                        THEN respondError([q EXCEPT !.firstErr = f.err], StatusNotFound)
                        ELSE respondJSON(q, StatusOK, f.person)]
    /\ UNCHANGED <<started, dbClosed, people, seq, origin>>

(***************************************************************************)
(* createPerson: decode; enrich; db.Create and respond.                    *)
(***************************************************************************)
\* A createPerson that goes on after a Decode error.
createPersonIgnoresDecodeError(r) ==
    /\ started /\ req[r].pc = "idle"
    /\ \E body \in Bodies :
          LET d == Decode(body)
          IN  req' = [req EXCEPT ![r] =
                        [Arrive(r, "create") EXCEPT !.bodyErr = d.err, !.pc = "enrich",
                                                    !.person = d.person,
                                                    !.sent = UserFieldsOf(d.person)]]
    /\ UNCHANGED <<started, dbClosed, people, seq, origin>>

createPerson(r) ==
    /\ started /\ req[r].pc = "idle"
    /\ \E body \in Bodies :
          LET d == Decode(body)
              q == [Arrive(r, "create") EXCEPT !.bodyErr = d.err]
          IN  req' = [req EXCEPT ![r] =
                        IF d.err THEN respondError(q, StatusBadRequest)
                        ELSE [q EXCEPT !.pc = "enrich", !.person = d.person,
                                       !.sent = UserFieldsOf(d.person)]]
    /\ UNCHANGED <<started, dbClosed, people, seq, origin>>

\* An enrichment that updatePerson skips when the name is the stored one.
EnrichSkipsUnchangedName(r) ==
    /\ req[r].pc = "enrich"
    /\ \E l \in Lookups :
          LET e == getEnrichedData(l)
              q == [req[r] EXCEPT !.lookups = l,
                                  !.enriched = OriginOf(req[r].person.Name, e)]
          IN  req' = [req EXCEPT ![r] =
                        IF req[r].op = "update" /\ req[r].person.Name = req[r].old.Name
                        THEN [q EXCEPT !.pc = "write"]
                        ELSE IF e.panic
                        THEN [q EXCEPT !.pc = "panicked", !.person = ZeroPerson,
                                       !.old = ZeroPerson]
                        ELSE [q EXCEPT !.pc = "write",
                                       !.person = enrichPersonData(req[r].person, e)]]
    /\ UNCHANGED <<started, dbClosed, people, seq, origin>>

\* enrichPersonData(&person), in createPerson and in updatePerson.  A panic in
\* getNationality unwinds the handler: net/http recovers it and drops the
\* connection, no response is written.
Enrich(r) ==
    /\ req[r].pc = "enrich"
    /\ \E l \in Lookups :
          LET e == getEnrichedData(l)
              q == [req[r] EXCEPT !.lookups = l,
                                  !.enriched = OriginOf(req[r].person.Name, e)]
          IN  req' = [req EXCEPT ![r] =
                        IF e.panic
                        THEN [q EXCEPT !.pc = "panicked", !.person = ZeroPerson,
                                       !.old = ZeroPerson]
                        ELSE [q EXCEPT !.pc = "write",
                                       !.person = enrichPersonData(req[r].person, e)]]
    /\ UNCHANGED <<started, dbClosed, people, seq, origin>>

createPersonCreate(r) ==
    /\ req[r].pc = "write" /\ req[r].op = "create"
    /\ req[r].person.ID = 0 => seq < MaxId
    /\ \E fault \in Faults :
          LET c == dbCreate(people, seq, fault, req[r].person)
          IN  /\ people' = c.table
              /\ seq' = c.seq
              /\ origin' = IF c.err = ErrNone
                           THEN [origin EXCEPT ![c.person.ID] = req[r].enriched]
                           ELSE origin
              /\ req' = [req EXCEPT ![r] =
                           respondJSON([req[r] EXCEPT !.writeErr = c.err, !.person = c.person],
                                       StatusCreated, c.person)]
    /\ UNCHANGED <<started, dbClosed>>

(***************************************************************************)
(* updatePerson: parse the id, db.First, decode, copy the three user       *)
(* fields; enrich; db.Save and respond.                                    *)
(***************************************************************************)
updatePerson(r) ==
    /\ started /\ req[r].pc = "idle"
    /\ \E param \in IdParams, body \in Bodies, fault \in Faults :
          LET id == Atoi(param)
              d == Decode(body)
              q == [Arrive(r, "update") EXCEPT !.idErr = id.err, !.personID = id.value,
                                               !.bodyErr = d.err]
              f == dbFirst(people, fault, id.value)
          IN  req' = [req EXCEPT ![r] =
                        IF id.err THEN respondError(q, StatusBadRequest)
                        ELSE IF f.err # ErrNone
                        THEN respondError([q EXCEPT !.firstErr = f.err], StatusNotFound)
                        ELSE IF d.err
                        THEN respondError([q EXCEPT !.old = f.person], StatusBadRequest)
                        ELSE [q EXCEPT !.pc = "enrich", !.old = f.person,
                                       !.sent = UserFieldsOf(d.person),
                                       !.person = [f.person EXCEPT
                                                     !.Name = d.person.Name,
                                                     !.Surname = d.person.Surname,
                                                     !.Patronymic = d.person.Patronymic]]]
    /\ UNCHANGED <<started, dbClosed, people, seq, origin>>

updatePersonSave(r) ==
    /\ req[r].pc = "write" /\ req[r].op = "update"
    /\ \E fault \in Faults :
          LET s == dbSave(people, seq, fault, req[r].person)
          IN  /\ people' = s.table
              /\ seq' = s.seq
              /\ origin' = IF s.err = ErrNone
                           THEN [origin EXCEPT ![s.person.ID] = req[r].enriched]
                           ELSE origin
              /\ req' = [req EXCEPT ![r] =
                           respondJSON([req[r] EXCEPT !.writeErr = s.err],
                                       StatusOK, req[r].person)]
    /\ UNCHANGED <<started, dbClosed>>

(***************************************************************************)
(* deletePerson: parse the id, db.First; db.Delete and respond.            *)
(***************************************************************************)
deletePerson(r) ==
    /\ started /\ req[r].pc = "idle"
    /\ \E param \in IdParams, fault \in Faults :
          LET id == Atoi(param)
              q == [Arrive(r, "delete") EXCEPT !.idErr = id.err, !.personID = id.value]
              f == dbFirst(people, fault, id.value)
          IN  req' = [req EXCEPT ![r] =
                        IF id.err THEN respondError(q, StatusBadRequest)
                        ELSE IF f.err # ErrNone
                        THEN respondError([q EXCEPT !.firstErr = f.err], StatusNotFound)
                        ELSE [q EXCEPT !.pc = "write", !.person = f.person, !.old = f.person]]
    /\ UNCHANGED <<started, dbClosed, people, seq, origin>>

deletePersonDelete(r) ==
    /\ req[r].pc = "write" /\ req[r].op = "delete"
    /\ \E fault \in Faults :
          LET d == dbDelete(people, fault, req[r].person)
          IN  /\ people' = d.table
              /\ req' = [req EXCEPT ![r] =
                           [req[r] EXCEPT !.pc = "done", !.status = StatusOK,
                                          !.writeErr = d.err]]
    /\ UNCHANGED <<started, dbClosed, seq, origin>>

Next ==
    \E r \in Reqs :
        \/ getPeople(r)
        \/ getPerson(r)
        \/ createPerson(r)
        \/ Enrich(r)
        \/ createPersonCreate(r)
        \/ updatePerson(r)
        \/ updatePersonSave(r)
        \/ deletePerson(r)
        \/ deletePersonDelete(r)

Spec == Init /\ [][Next]_vars

\* From main: the steps after a successful db.First are never reached once the
\* handle is closed.
NextMain ==
    \/ initDB
    \/ \E r \in Reqs :
        \/ getPeople(r)
        \/ getPerson(r)
        \/ createPerson(r)
        \/ Enrich(r)
        \/ createPersonCreate(r)
        \/ updatePerson(r)
        \/ deletePerson(r)

SpecMain == InitMain /\ [][NextMain]_vars

(***************************************************************************)
(* What the claims speak of.                                               *)
(***************************************************************************)
\* A lookup answered with the document its service documents.
AgeAnswered(l) ==
    ~l.err /\ "age" \in DOMAIN l.response /\ l.response["age"].t = "num"

GenderAnswered(l) ==
    ~l.err /\ "gender" \in DOMAIN l.response /\ l.response["gender"].t = "str"

NationalityAnswered(l) ==
    /\ ~l.err
    /\ "country" \in DOMAIN l.response
    /\ l.response["country"].t = "arr"
    /\ Len(l.response["country"].a) > 0
    /\ l.response["country"].a[1].t = "obj"
    /\ "country_id" \in DOMAIN l.response["country"].a[1].o
    /\ l.response["country"].a[1].o["country_id"].t = "str"

\* The nationality service answered, with a document of another shape.
NationalityMisshapen(l) == ~l.err /\ ~NationalityAnswered(l)

\* Every lookup either failed in transport or parsing, or answered.
FailedOrAnswered(l) ==
    /\ l.age.err \/ AgeAnswered(l.age)
    /\ l.gender.err \/ GenderAnswered(l.gender)
    /\ l.nationality.err \/ NationalityAnswered(l.nationality)

\* The derived triple the specification prescribes for the lookups l.
ExpectedAge(l) == IF AgeAnswered(l.age) THEN l.age.response["age"].n \div 10 ELSE 0

ExpectedGender(l) == IF GenderAnswered(l.gender) THEN l.gender.response["gender"].s ELSE ""

ExpectedNationality(l) ==
    IF NationalityAnswered(l.nationality)
    THEN l.nationality.response["country"].a[1].o["country_id"].s
    ELSE ""

HasExpectedTriple(person, l) ==
    /\ person.Age = ExpectedAge(l)
    /\ person.Gender = ExpectedGender(l)
    /\ person.Nationality = ExpectedNationality(l)

Writes == {"create", "update"}

SuccessOf(op) == IF op = "create" THEN StatusCreated ELSE StatusOK

\* Request r leaves enrichment in this step.
EnrichStep(r) == req[r].pc = "enrich" /\ req'[r].pc # "enrich"

\* Request r performs its store write and responds in this step.
WriteStep(r, op) == req[r].pc = "write" /\ req[r].op = op /\ req'[r].pc = "done"

\* Request r arrives and runs its handler's first part in this step.
ArriveStep(r) == req[r].pc = "idle" /\ req'[r].pc # "idle"

C2_MisshapenNationalityDegrades ==
    \A r \in Reqs :
        (req[r].enriched.calls = 3 /\ NationalityMisshapen(req[r].lookups.nationality)) =>
            /\ req[r].pc \in {"write", "done"}
            /\ HasExpectedTriple(req[r].person, req[r].lookups)
            /\ req[r].pc = "done" =>
                  /\ req[r].status = SuccessOf(req[r].op)
                  /\ req[r].out.Nationality = ""

(***************************************************************************)
(* C3.  Every stored record's derived fields are the triple that the       *)
(* enrichment of the write that stored its name returned for that name;    *)
(* derived values sent in a payload are never stored.                      *)
(***************************************************************************)
C3_DerivedFieldsFromSameWrite ==
    \A k \in Keys :
        HasRow(people, k) =>
            /\ origin[k].calls = 3
            /\ people[k].Name = origin[k].name
            /\ people[k].Age = origin[k].age
            /\ people[k].Gender = origin[k].gender
            /\ people[k].Nationality = origin[k].nationality
            /\ people[k].Age # Forged.Age
            /\ people[k].Gender # Forged.Gender
            /\ people[k].Nationality # Forged.Nationality

\* An update has replaced the name of a record and its age with it, and a
\* create whose payload carried derived values has stored its record.
C3_Witness ==
    \E r \in Reqs :
        /\ req[r].op = "update" /\ req[r].pc = "done" /\ req[r].writeErr = ErrNone
        /\ req[r].old.Name # req[r].sent.Name
        /\ req[r].old.Age # req[r].out.Age
        /\ Visible(people, req[r].personID)
        /\ people[req[r].personID].Name = req[r].sent.Name
        /\ people[req[r].personID].Age = req[r].out.Age
        /\ \E c \in Reqs \ {r} :
              /\ req[c].op = "create" /\ req[c].pc = "done" /\ req[c].writeErr = ErrNone
              /\ req[c].sent.Surname = Forger.Surname
              /\ HasRow(people, req[c].out.ID)
              /\ people[req[c].out.ID].Surname = Forger.Surname
              /\ people[req[c].out.ID].Age = 42

C5_AbsentIdentifierNotFound ==
    [][\A r \in Reqs :
          (/\ ArriveStep(r)
           /\ req'[r].op \in {"get", "update", "delete"}
           /\ ~req'[r].idErr
           /\ ~Visible(people, req'[r].personID)) =>
              /\ req'[r].pc = "done"
              /\ req'[r].status = StatusNotFound
              /\ req'[r].enriched.calls = 0
              /\ people' = people /\ seq' = seq
      ]_vars

\* An update with a well-formed payload, of a record deleted before it arrived,
\* answered not-found.
C5_Witness ==
    \E r, d \in Reqs :
        /\ req[d].op = "delete" /\ req[d].pc = "done" /\ req[d].writeErr = ErrNone
        /\ req[d].status = StatusOK
        /\ req[r].op = "update" /\ req[r].pc = "done" /\ ~req[r].bodyErr
        /\ req[r].personID = req[d].personID
        /\ req[r].firstErr = ErrRecordNotFound
        /\ req[r].status = StatusNotFound

(***************************************************************************)
(* C6, as claimed.  A create or update with a malformed payload, and a     *)
(* get, update or delete with a malformed identifier, ends in a            *)
(* client-input error and has issued no lookup.                            *)
(***************************************************************************)
BadInput(q) ==
    \/ q.op \in Writes /\ q.bodyErr
    \/ q.op \in {"get", "update", "delete"} /\ q.idErr

C6_MalformedInputIsClientError ==
    \A r \in Reqs :
        (req[r].pc = "done" /\ BadInput(req[r])) =>
            /\ req[r].status = StatusBadRequest
            /\ req[r].enriched.calls = 0

(***************************************************************************)
(* C6, amended.  Such a request ends at once, without a store mutation or  *)
(* a lookup, in a client-input error, except that an update with a         *)
(* well-formed identifier which db.First does not find ends in not-found   *)
(* before its payload is looked at.                                        *)
(***************************************************************************)
C6_MalformedInputRejected ==
    [][\A r \in Reqs :
          (ArriveStep(r) /\ BadInput(req'[r])) =>
              /\ req'[r].pc = "done"
              /\ req'[r].enriched.calls = 0
              /\ people' = people /\ seq' = seq
              /\ IF /\ req'[r].op = "update" /\ ~req'[r].idErr
                    /\ req'[r].firstErr # ErrNone
                 THEN req'[r].status = StatusNotFound
                 ELSE req'[r].status = StatusBadRequest
      ]_vars

\* An update of an existing record with a malformed payload was refused and the
\* record is as db.First read it; a create with a malformed payload was refused.
C6_Witness ==
    \E r, c \in Reqs :
        /\ req[r].op = "update" /\ req[r].pc = "done" /\ req[r].bodyErr
        /\ req[r].status = StatusBadRequest
        /\ Visible(people, req[r].personID)
        /\ people[req[r].personID] = req[r].old
        /\ req[c].op = "create" /\ req[c].pc = "done" /\ req[c].bodyErr
        /\ req[c].status = StatusBadRequest

(***************************************************************************)
(* C7.  Once the server has started, a read by the identifier a successful *)
(* create returned, with no update or delete of that record in between,    *)
(* succeeds and returns the payload's user fields and the create           *)
(* response's derived triple.                                              *)
(***************************************************************************)
C7_CreateThenReadRoundTrip ==
    [][\A c, g \in Reqs :
          (/\ req[c].op = "create" /\ req[c].pc = "done"
           /\ req[c].status = StatusCreated
           /\ ArriveStep(g) /\ req'[g].op = "get"
           /\ ~req'[g].idErr /\ req'[g].personID = req[c].out.ID
           /\ \A x \in Reqs \ {c, g} :
                 ~(req[x].op \in {"update", "delete"} /\ req[x].personID = req[c].out.ID)) =>
              /\ req'[g].status = StatusOK
              /\ UserFieldsOf(req'[g].out) = req[c].sent
              /\ req'[g].out.Age = req[c].out.Age
              /\ req'[g].out.Gender = req[c].out.Gender
              /\ req'[g].out.Nationality = req[c].out.Nationality
      ]_vars

(***************************************************************************)
(* C8.  A successful create adds exactly one record, under an identifier   *)
(* the store assigned and no present record has, leaves the other records  *)
(* as they are and returns the stored record, whatever the payload holds.  *)
(***************************************************************************)
C8_CreateAssignsFreshIdentifier ==
    [][\A r \in Reqs :
          (WriteStep(r, "create") /\ req'[r].writeErr = ErrNone) =>
              /\ req'[r].status = StatusCreated
              /\ seq' = seq + 1
              /\ req'[r].out.ID = seq'
              /\ ~HasRow(people, seq')
              /\ people'[seq'] = req'[r].out
              /\ \A k \in Keys \ {seq'} : people'[k] = people[k]
      ]_vars

(***************************************************************************)
(* C9.  A create, update or delete whose store write failed does not       *)
(* answer with its success status.                                         *)
(***************************************************************************)
C9_StoreFailureIsServerError ==
    \A r \in Reqs :
        (/\ req[r].pc = "done"
         /\ req[r].op \in {"create", "update", "delete"}
         /\ req[r].writeErr # ErrNone) =>
            req[r].status \notin {StatusOK, StatusCreated}

(***************************************************************************)
(* C10.  Once a delete of identifier i has been performed, the record      *)
(* stays deleted: the write of an update that read the record before the   *)
(* delete does not bring it back.  Read(i) finds nothing and List does not *)
(* hold i.                                                                 *)
(***************************************************************************)
C10_DeletedRecordStaysDeleted ==
    \A d \in Reqs :
        (/\ req[d].op = "delete" /\ req[d].pc = "done"
         /\ req[d].status = StatusOK /\ req[d].writeErr = ErrNone) =>
            /\ dbFirst(people, ErrNone, req[d].personID).err = ErrRecordNotFound
            /\ \A p \in dbFind(people, ErrNone) : p.ID # req[d].personID

\* The update read the record, the delete was performed, and then the update's
\* db.Save ran: its UPDATE met no row and its INSERT met the deleted one.
C10_Witness ==
    \E d, u \in Reqs :
        /\ req[d].op = "delete" /\ req[d].pc = "done"
        /\ req[d].status = StatusOK /\ req[d].writeErr = ErrNone
        /\ req[u].op = "update" /\ req[u].pc = "done"
        /\ req[u].personID = req[d].personID
        /\ req[u].old = req[d].old
        /\ req[u].writeErr = ErrDuplicateKey
        /\ req[u].status = StatusOK

====
